---- MODULE Spec2Model ----
(***************************************************************************)
(* Model of the GLF reader (OniDaito/glf): the .dat stream parser          *)
(* (parse_header, parse_image_record, parse_status_record, parse_dat),     *)
(* GLF::new, and the facade operations extract_image and                   *)
(* extract_image_next_sonarid.                                             *)
(*                                                                         *)
(* Buffers are sequences of bytes.  Rust offsets are 0-based, TLA+         *)
(* sequences 1-based: the byte at offset i is buf[i + 1].  A Rust panic    *)
(* (slice or index out of range, failed assert!, unwrap of None/Err,       *)
(* arithmetic overflow) is the outcome "panic".                            *)
(***************************************************************************)
EXTENDS Integers, Sequences, FiniteSets, TLC

(***************************************************************************)
(* Bounds of the model.                                                    *)
(***************************************************************************)
\* Largest number of records written into a .dat stream.
MaxRecords == 3
\* Largest number of bytes cut from, or appended to, the end of a stream.
MaxTail == 3
\* Largest number of image records of a GLF assembled field by field.
MaxImages == 3

(***************************************************************************)
(* Program constants.                                                      *)
(***************************************************************************)
\* CIHeader::new: header_size: 21
header_size == 21
\* '*' as a byte
STAR == 42
\* assert!(rtype == 1)
RTYPE_IMAGE == 1
\* assert!(version == 0xEFEF)
VERSION_TAG == 61423
\* assert!(end_tag == 0xDEDE)
END_TAG == 57054
\* if image_version == 3
IMAGE_VERSION_3 == 3

(***************************************************************************)
(* byteorder::LittleEndian readers.  A slice [lo, hi) of a buffer is in    *)
(* range iff hi <= Len(buf); a read out of range panics.                   *)
(***************************************************************************)
InRange(buf, hi) == hi <= Len(buf)

read_u8(buf, off) == buf[off + 1]

read_u16(buf, off) == buf[off + 1] + 256 * buf[off + 2]

read_u32(buf, off) ==
    buf[off + 1] + 256 * buf[off + 2] + 65536 * buf[off + 3]
        + 16777216 * buf[off + 4]

\* The bit pattern of an f64 (its eight bytes); the model does not
\* interpret floating point values.
read_f64(buf, off) == SubSeq(buf, off + 1, off + 8)

(***************************************************************************)
(* parse_header (ciheader.rs).  Returns ok = FALSE when the call panics.   *)
(* The star check reads dat_buffer[0], not dat_buffer[fp].                 *)
(* payload_length = read_u32 - 21 overflows (panics under overflow checks) *)
(* when the stored length is below 21; the streams of the model store the  *)
(* true record length, so the wrapping profile is not distinguished.       *)
(***************************************************************************)
parse_header_star(dat_buffer, fp) == read_u8(dat_buffer, 0) = STAR

parse_header(dat_buffer, file_offset) ==
    LET fp == file_offset
        ok == /\ InRange(dat_buffer, 1)
              /\ parse_header_star(dat_buffer, fp)
              /\ InRange(dat_buffer, fp + 19)
              /\ read_u32(dat_buffer, fp + 2) >= header_size
    IN  IF ok
        THEN [ok |-> TRUE,
              header |-> [header_size |-> header_size,
                          payload_length |->
                              read_u32(dat_buffer, fp + 2) - header_size,
                          header_type |-> read_u8(dat_buffer, fp + 14),
                          device_id |-> read_u16(dat_buffer, fp + 15),
                          node_id |-> read_u16(dat_buffer, fp + 17)],
              file_offset |-> file_offset + header_size]
        ELSE [ok |-> FALSE]

(***************************************************************************)
(* parse_image_record (imagerec.rs).                                       *)
(***************************************************************************)
\* Mutant: the pointer is left on the data_size field.
image_data_ptr_on_size(fp) == fp

\* let dat_ptr = fp + 4, fp being the offset of the u32 data_size field.
image_data_ptr(fp) == fp + 4

\* Mutant: the size heuristic is applied to every image version.
image_compression_type_always(image_version, read_type, dat_size, bearing_start, bearing_end, range_start, range_end) ==
    IF (bearing_end - bearing_start) * (range_end - range_start) # dat_size
    THEN 0
    ELSE read_type

\* The compression type of a parsed record: the u16 read for
\* image_version 3, else inferred from the payload size.
image_compression_type(image_version, read_type, dat_size, bearing_start, bearing_end, range_start, range_end) ==
    IF image_version = IMAGE_VERSION_3
    THEN read_type
    ELSE IF (bearing_end - bearing_start) * (range_end - range_start)
                # dat_size
         THEN 0
         ELSE 1

parse_image_record(header, dat_buffer, file_offset) ==
    LET fp0 == file_offset
        rtype == read_u16(dat_buffer, fp0)
        version == read_u16(dat_buffer, fp0 + 2)
        fp1 == fp0 + 4
        image_version == read_u16(dat_buffer, fp1)
        range_start == read_u32(dat_buffer, fp1 + 2)
        range_end == read_u32(dat_buffer, fp1 + 6)
        range_compression == read_u16(dat_buffer, fp1 + 10)
        bearing_start == read_u32(dat_buffer, fp1 + 12)
        bearing_end == read_u32(dat_buffer, fp1 + 16)
        fp2 == fp1 + 20
        v3 == image_version = IMAGE_VERSION_3
        read_type == IF v3 THEN read_u16(dat_buffer, fp2) ELSE 1
        fp3 == IF v3 THEN fp2 + 2 ELSE fp2
        dat_size == read_u32(dat_buffer, fp3)
        dat_ptr == image_data_ptr(fp3)
        fp4 == fp3 + 4 + dat_size
        bsize == bearing_end - bearing_start
        btable == [i \in 1..bsize |->
                      read_f64(dat_buffer, fp4 + (i - 1) * 8)]
        fp5 == fp4 + bsize * 8
        state_flags == read_u32(dat_buffer, fp5)
        modulation_frequency == read_u32(dat_buffer, fp5 + 4)
        fp6 == fp5 + 8
        end_tag == read_u16(dat_buffer, fp6 + 24)
        fp7 == fp6 + 26
        record_size == fp7 - file_offset
        \* Every slice in range, every assert! true, no u32 underflow.
        \* bearing_end < bearing_start panics under overflow checks, and
        \* without them the wrapped count makes the bearing loop read past
        \* the end of any buffer under 4 GiB.  range_end < range_start
        \* panics under overflow checks; the streams of the model keep
        \* range_end >= range_start.
        ok == /\ InRange(dat_buffer, fp0 + 4)
              /\ rtype = RTYPE_IMAGE
              /\ version = VERSION_TAG
              /\ InRange(dat_buffer, fp1 + 20)
              /\ v3 => InRange(dat_buffer, fp2 + 2)
              /\ InRange(dat_buffer, fp3 + 4)
              /\ bearing_end >= bearing_start
              /\ bsize > 0 => InRange(dat_buffer, fp4 + bsize * 8)
              /\ InRange(dat_buffer, fp5 + 8)
              /\ InRange(dat_buffer, fp6 + 26)
              /\ end_tag = END_TAG
              /\ range_end >= range_start
    IN  IF ok
        THEN [ok |-> TRUE,
              rec |-> [header |-> header,
                       version |-> version,
                       image_version |-> image_version,
                       range_start |-> range_start,
                       range_end |-> range_end,
                       range_compression |-> range_compression,
                       bearing_start |-> bearing_start,
                       bearing_end |-> bearing_end,
                       compression_type |->
                           image_compression_type(image_version, read_type,
                               dat_size, bearing_start, bearing_end,
                               range_start, range_end),
                       data_ptr |-> dat_ptr,
                       data_size |-> dat_size,
                       bearing_table |-> btable,
                       state_flags |-> state_flags,
                       modulation_frequency |-> modulation_frequency,
                       record_size |-> record_size,
                       image_width |-> bearing_end - bearing_start,
                       image_height |-> range_end - range_start],
              file_offset |-> file_offset + record_size]
        ELSE [ok |-> FALSE]

(***************************************************************************)
(* parse_status_record (statusrec.rs).  The last slice read ends at        *)
(* fp + 20 of the final block; the two bytes after it are skipped unread.  *)
(* xd_selected and net_adap_found are read at the absolute offsets 8 and   *)
(* 20 of the buffer.                                                       *)
(***************************************************************************)
\* Mutant: the offset stops at the last byte read, without the two
\* bytes after it.
status_record_size_read == 10 + 32 + 24 + 64 + 40 + 26 + 20

status_record_size == 10 + 32 + 24 + 64 + 40 + 26 + 22

status_last_read(file_offset) ==
    file_offset + 10 + 32 + 24 + 64 + 40 + 26 + 20

parse_status_record(header, dat_buffer, file_offset) ==
    LET fp == file_offset
        ok == /\ InRange(dat_buffer, status_last_read(file_offset))
              /\ InRange(dat_buffer, 21)
    IN  IF ok
        THEN [ok |-> TRUE,
              rec |-> [header |-> header,
                       bf_version |-> read_u16(dat_buffer, fp),
                       da_version |-> read_u16(dat_buffer, fp + 2),
                       flags |-> read_u16(dat_buffer, fp + 4),
                       device_id |-> read_u16(dat_buffer, fp + 6),
                       xd_selected |-> read_u8(dat_buffer, 8),
                       net_adap_found |-> read_u8(dat_buffer, 20) # 0],
              file_offset |-> file_offset + status_record_size]
        ELSE [ok |-> FALSE]

(***************************************************************************)
(* The .dat streams the model opens.  A stream is written record by        *)
(* record in the wire layout the parsers above read; a record is described *)
(* by the values of its fields.  All image records have the geometry       *)
(* bearing 1..3 (width 2), range 2..3 (height 1) unless a fault says       *)
(* otherwise.                                                              *)
(***************************************************************************)
le_u16(v) == <<v % 256, (v \div 256) % 256>>

le_u32(v) ==
    <<v % 256, (v \div 256) % 256, (v \div 65536) % 256,
      (v \div 16777216) % 256>>

Zeros(n) == [i \in 1..n |-> 0]

\* zlib.compress of the two bytes 7, 9 (ten bytes).
Zlib79 == <<120, 156, 99, 231, 4, 0, 0, 25, 0, 17>>

\* The device ids of a multiplexed capture.
SonarIds == {101, 102}

\* The kinds of record a stream is made of: header_type, image_version,
\* the compression type field (image_version 3 only) and the payload.
RecordKinds ==
    { [header_type |-> 0, image_version |-> 3, ctype |-> 1,
       payload |-> <<7, 9>>],
      [header_type |-> 0, image_version |-> 3, ctype |-> 2,
       payload |-> <<1, 2, 3>>],
      [header_type |-> 0, image_version |-> 2, ctype |-> 0,
       payload |-> <<5, 6>>],
      [header_type |-> 0, image_version |-> 2, ctype |-> 0,
       payload |-> Zlib79],
      [header_type |-> 0, image_version |-> 3, ctype |-> 1,
       payload |-> <<7, 9, 4>>],
      [header_type |-> 3, image_version |-> 0, ctype |-> 0,
       payload |-> <<>>] }

\* What can be wrong with one record of a stream.
HeaderTypeFaults == {"type1", "type2", "type98", "type99", "type7"}
ImageFaults == {"rtype", "version", "endtag", "bearing"}
Faults == {"nostar"} \cup HeaderTypeFaults \cup ImageFaults

FaultType(what, header_type) ==
    CASE what = "type1" -> 1
      [] what = "type2" -> 2
      [] what = "type98" -> 98
      [] what = "type99" -> 99
      [] what = "type7" -> 7
      [] OTHER -> header_type

\* The record at position pos of a stream: its node_id is its position,
\* its device_id alternates between the two sonars.
Describe(kind, pos) ==
    [header_type |-> kind.header_type,
     body_type |-> kind.header_type,
     star |-> TRUE,
     device_id |-> IF pos % 2 = 1 THEN 101 ELSE 102,
     node_id |-> pos,
     rtype |-> RTYPE_IMAGE,
     version |-> VERSION_TAG,
     image_version |-> kind.image_version,
     ctype |-> kind.ctype,
     range_start |-> 2,
     range_end |-> 3,
     bearing_start |-> 1,
     bearing_end |-> 3,
     payload |-> kind.payload,
     end_tag |-> END_TAG]

EncodeImageBody(d) ==
    le_u16(d.rtype) \o le_u16(d.version) \o le_u16(d.image_version)
        \o le_u32(d.range_start) \o le_u32(d.range_end) \o le_u16(0)
        \o le_u32(d.bearing_start) \o le_u32(d.bearing_end)
        \o (IF d.image_version = IMAGE_VERSION_3
            THEN le_u16(d.ctype) ELSE <<>>)
        \o le_u32(Len(d.payload)) \o d.payload
        \o (IF d.bearing_end > d.bearing_start
            THEN Zeros(8 * (d.bearing_end - d.bearing_start)) ELSE <<>>)
        \o Zeros(8) \o Zeros(24) \o le_u16(d.end_tag)

EncodeStatusBody(d) ==
    le_u16(1) \o le_u16(2) \o le_u16(0) \o le_u16(d.device_id)
        \o Zeros(status_record_size - 8)

EncodeBody(d) ==
    IF d.body_type = 0 THEN EncodeImageBody(d) ELSE EncodeStatusBody(d)

EncodeRecord(d) ==
    <<IF d.star THEN STAR ELSE 0, 0>>
        \o le_u32(Len(EncodeBody(d)) + header_size) \o Zeros(8)
        \o <<d.header_type>> \o le_u16(d.device_id) \o le_u16(d.node_id)
        \o Zeros(2) \o EncodeBody(d)

RECURSIVE EncodeStream(_)
EncodeStream(ds) ==
    IF ds = <<>> THEN <<>>
    ELSE EncodeStream(SubSeq(ds, 1, Len(ds) - 1)) \o EncodeRecord(ds[Len(ds)])

\* The stream with |t| bytes cut from its end (t < 0) or t bytes appended.
WithTail(bytes, t) ==
    IF t < 0 THEN SubSeq(bytes, 1, Len(bytes) + t)
    ELSE bytes \o [i \in 1..t |-> STAR]

\* The fault f at position p of a stream and the tail t go together: at
\* most one faulty record, an image fault on an image record, and a stream
\* with a faulty record has no tail.
WellFormedInput(ds, p, f, t) ==
    /\ (p = 0) = (f = "none")
    /\ f # "none" => t = 0
    /\ f \in ImageFaults => ds[p].body_type = 0
    /\ t < 0 => ds # <<>>

\* The stream ds with the fault f in its record at position p.
WithFault(ds, p, f) ==
    [i \in 1..Len(ds) |->
        IF i = p
        THEN [ds[i] EXCEPT
                !.header_type = FaultType(f, ds[i].header_type),
                !.star = f # "nostar",
                !.rtype = IF f = "rtype" THEN RTYPE_IMAGE + 1 ELSE @,
                !.version = IF f = "version" THEN VERSION_TAG - 1 ELSE @,
                !.bearing_start = IF f = "bearing" THEN 4 ELSE @,
                !.end_tag = IF f = "endtag" THEN END_TAG - 1 ELSE @]
        ELSE ds[i]]

(***************************************************************************)
(* parse_dat (glf.rs): one iteration of the loop.  ok = FALSE when the     *)
(* iteration panics: the header or the record parser panics, or the        *)
(* header type is not 0 or 3 (assert!(false)).                             *)
(***************************************************************************)
\* Mutant: the loop stops one byte earlier.
parse_dat_continue_early(dat_buffer, file_offset) ==
    file_offset < Len(dat_buffer) - 3

parse_dat_continue(dat_buffer, file_offset) ==
    file_offset < Len(dat_buffer) - 2

\* Mutant: every header type but 3 is taken for an image record.
parse_dat_dispatch_lax(header_type) ==
    IF header_type = 3 THEN "status" ELSE "image"

parse_dat_dispatch(header_type) ==
    CASE header_type = 0 -> "image"
      [] header_type = 1 -> "assert"
      [] header_type = 2 -> "assert"
      [] header_type = 3 -> "status"
      [] header_type = 98 -> "assert"
      [] header_type = 99 -> "assert"
      [] OTHER -> "assert"

\* Mutant: the record goes to the front of the list.
push_front(records, rec) == <<rec>> \o records

\* image_records.push(image_rec) / status_records.push(status_rec)
push(records, rec) == Append(records, rec)

\* The body of the loop after let header = parse_header(...): h is what
\* parse_header returned.
parse_dat_record(h, dat_buffer, image_records, status_records) ==
    LET what == parse_dat_dispatch(h.header.header_type)
        i == parse_image_record(h.header, dat_buffer, h.file_offset)
        s == parse_status_record(h.header, dat_buffer, h.file_offset)
    IN  IF ~h.ok THEN [ok |-> FALSE]
        ELSE IF what = "image" /\ i.ok
        THEN [ok |-> TRUE, file_offset |-> i.file_offset,
              image_records |-> push(image_records, i.rec),
              status_records |-> status_records]
        ELSE IF what = "status" /\ s.ok
        THEN [ok |-> TRUE, file_offset |-> s.file_offset,
              image_records |-> image_records,
              status_records |-> push(status_records, s.rec)]
        ELSE [ok |-> FALSE]

\* The header is parsed once and the body runs on the value returned.
parse_dat_step(dat_buffer, file_offset, image_records, status_records) ==
    LET body[h \in {parse_header(dat_buffer, file_offset)}] ==
            parse_dat_record(h, dat_buffer, image_records, status_records)
    IN  body[parse_header(dat_buffer, file_offset)]

(***************************************************************************)
(* External collaborators of extract_image.                                *)
(***************************************************************************)
\* zune_inflate DeflateDecoder::decode_zlib on the payloads of the model:
\* Zlib79 inflates to the bytes 7, 9; no other payload or buffer slice of
\* the model is a zlib stream.
decode_zlib(raw) ==
    IF raw = Zlib79 THEN [ok |-> TRUE, data |-> <<7, 9>>]
    ELSE [ok |-> FALSE, data |-> <<>>]

\* image::GrayImage::from_vec: None when the container holds fewer than
\* width * height bytes; a longer container is accepted and kept whole as
\* the raster's buffer (its pixels are the first width * height bytes).
from_vec_fits(width, height, data) == width * height <= Len(data)

(***************************************************************************)
(* Outcomes of the facade operations.                                      *)
(***************************************************************************)
NoImg == [width |-> 0, height |-> 0, raw |-> <<>>]

Outcome(kind, err, idx, img) ==
    [kind |-> kind, err |-> err, idx |-> idx, img |-> img]

Panic == Outcome("panic", "", 0, NoImg)

ERR_H264 == "H264 decompression not yet implemented."

ERR_PTR == "ptr exceeds image data length"

(***************************************************************************)
(* GLF::extract_image (glf.rs).                                            *)
(***************************************************************************)
\* if ptr + dat_size < self.dat.len() as u32
extract_image_in_data(ptr, dat_size, dat_len) == ptr + dat_size < dat_len

\* Mutant: the H.264 branch tests for a compression type no record has.
extract_image_h264_other(compression_type) == compression_type = 3

\* else if img_rec.compression_type == 2
extract_image_h264(compression_type) == compression_type = 2

extract_image(images, dat, idx) ==
    IF idx >= Len(images) THEN Panic   \* self.images[idx]
    ELSE
    LET img_rec == images[idx + 1]
        ptr == img_rec.data_ptr
        dat_size == img_rec.data_size
        raw_img_data == SubSeq(dat, ptr + 1, ptr + dat_size)
        width == img_rec.image_width
        height == img_rec.image_height
        decoded == decode_zlib(raw_img_data)
    IN  IF extract_image_in_data(ptr, dat_size, Len(dat))
        THEN IF img_rec.compression_type = 0
             THEN IF decoded.ok /\ from_vec_fits(width, height, decoded.data)
                  THEN Outcome("Ok", "", 0,
                               [width |-> width, height |-> height,
                                raw |-> decoded.data])
                  ELSE Panic
             ELSE IF extract_image_h264(img_rec.compression_type)
             THEN Outcome("Err", ERR_H264, 0, NoImg)
             ELSE IF from_vec_fits(width, height, raw_img_data)
             THEN Outcome("Ok", "", 0,
                          [width |-> width, height |-> height,
                           raw |-> raw_img_data])
             ELSE Panic
        ELSE Outcome("Err", ERR_PTR, 0, NoImg)

(***************************************************************************)
(* GLF::extract_image_next_sonarid (glf.rs).                               *)
(***************************************************************************)
\* The while loops: the first index >= from whose record has the sonar id,
\* or Len(images) when the search runs off the end of the list.
RECURSIVE next_match(_, _, _)
next_match(images, from, sonar_id) ==
    IF from >= Len(images) THEN Len(images)
    ELSE IF images[from + 1].header.device_id = sonar_id THEN from
    ELSE next_match(images, from + 1, sonar_id)

\* Mutant: the second search starts at tidx itself.
next_start_same(tidx) == tidx

\* Mutant: the second search skips the record after tidx.
next_start_skip(tidx) == tidx + 2

\* let mut nidx = tidx + 1
next_start(tidx) == tidx + 1

extract_image_next_sonarid(images, dat, idx, sonar_id) ==
    IF idx >= Len(images) THEN Panic   \* self.images[tidx]
    ELSE
    LET tidx == next_match(images, idx, sonar_id)
        nidx == next_match(images, next_start(tidx), sonar_id)
        got == extract_image(images, dat, tidx)
    IN  IF tidx >= Len(images) THEN Outcome("None", "", 0, NoImg)
        ELSE IF nidx >= Len(images) THEN Outcome("None", "", 0, NoImg)
        ELSE IF got.kind = "Ok" THEN Outcome("Some", "", nidx, got.img)
        ELSE IF got.kind = "Err" THEN Outcome("None", "", 0, NoImg)
        ELSE Panic

(***************************************************************************)
(* State.                                                                  *)
(*   file, stream, tail  the file GLF::new is called on: whether it opens  *)
(*                       and unzips, and the records and tail of its .dat  *)
(*   dat                 dat_buffer, then GLF.dat                          *)
(*   file_offset         parse_dat's offset                                *)
(*   images, statuses    image_records / status_records, then GLF.images   *)
(*                       and GLF.statuses                                  *)
(*   pc                  "new": GLF::new called; "parse": in the loop of   *)
(*                       parse_dat; "opened": GLF::new returned Ok(glf);   *)
(*                       "failed": it returned Err; "panicked": the call   *)
(*                       in progress panicked                              *)
(*   ret                 the last call and what it returned                *)
(***************************************************************************)
VARIABLES file, stream, tail, dat, file_offset, images, statuses, pc, ret

vars == <<file, stream, tail, dat, file_offset, images, statuses, pc, ret>>

Ret(op, idx, sonar_id, out) ==
    [op |-> op, idx |-> idx, sonar_id |-> sonar_id, out |-> out]

NoRet == Ret("none", 0, 0, Outcome("none", "", 0, NoImg))

Init ==
    /\ pc = "new"
    /\ file \in {"missing", "bad_zip", "glf"}
    /\ stream = <<>>
    /\ tail = 0
    /\ dat = <<>>
    /\ file_offset = 0
    /\ images = <<>>
    /\ statuses = <<>>
    /\ ret = NoRet

\* File::open fails: Err("Failed to open GLF File").
OpenFailed ==
    /\ pc = "new"
    /\ file = "missing"
    /\ pc' = "failed"
    /\ ret' = Ret("new", 0, 0,
                  Outcome("Err", "Failed to open GLF File", 0, NoImg))
    /\ UNCHANGED <<file, stream, tail, dat, file_offset, images, statuses>>

\* read_zip_dat returns None: Err("Error parsing GLF.").
ZipFailed ==
    /\ pc = "new"
    /\ file = "bad_zip"
    /\ pc' = "failed"
    /\ ret' = Ret("new", 0, 0, Outcome("Err", "Error parsing GLF.", 0, NoImg))
    /\ UNCHANGED <<file, stream, tail, dat, file_offset, images, statuses>>

\* The file on disk: one more record in its .dat stream.
WriteRecord ==
    /\ pc = "new"
    /\ file = "glf"
    /\ Len(stream) < MaxRecords
    /\ \E kind \in RecordKinds :
          stream' = Append(stream, Describe(kind, Len(stream) + 1))
    /\ UNCHANGED <<file, tail, dat, file_offset, images, statuses, pc, ret>>

\* read_zip_dat returns the bytes of the .dat entry: the records written,
\* at most one of them faulty, or with a tail (stream and tail record which);
\* parse_dat starts.
ReadZipDat ==
    /\ pc = "new"
    /\ file = "glf"
    /\ \E p \in 0..Len(stream), f \in Faults \cup {"none"},
          t \in (0 - MaxTail)..MaxTail :
          /\ WellFormedInput(stream, p, f, t)
          /\ stream' = WithFault(stream, p, f)
          /\ tail' = t
          /\ dat' = WithTail(EncodeStream(WithFault(stream, p, f)), t)
    /\ file_offset' = 0
    /\ images' = <<>>
    /\ statuses' = <<>>
    /\ pc' = "parse"
    /\ UNCHANGED <<file, ret>>

\* One iteration of parse_dat's loop that parses a record.
ParseRecord ==
    /\ pc = "parse"
    /\ parse_dat_continue(dat, file_offset)
    /\ \E r \in {parse_dat_step(dat, file_offset, images, statuses)} :
          /\ r.ok
          /\ file_offset' = r.file_offset
          /\ images' = r.image_records
          /\ statuses' = r.status_records
    /\ UNCHANGED <<file, stream, tail, dat, pc, ret>>

\* One iteration of parse_dat's loop that panics: GLF::new unwinds, its
\* buffer and record lists are dropped and no GLF is returned.
ParsePanic ==
    /\ pc = "parse"
    /\ parse_dat_continue(dat, file_offset)
    /\ ~parse_dat_step(dat, file_offset, images, statuses).ok
    /\ pc' = "panicked"
    /\ dat' = <<>>
    /\ file_offset' = 0
    /\ images' = <<>>
    /\ statuses' = <<>>
    /\ ret' = Ret("new", 0, 0, Panic)
    /\ UNCHANGED <<file, stream, tail>>

\* The loop ends: GLF::new returns Ok(GLF {images, statuses, dat}).
NewOk ==
    /\ pc = "parse"
    /\ ~parse_dat_continue(dat, file_offset)
    /\ pc' = "opened"
    /\ ret' = Ret("new", 0, 0, Outcome("Ok", "", 0, NoImg))
    /\ UNCHANGED <<file, stream, tail, dat, file_offset, images, statuses>>

\* The caller drops the raster or error the last call returned; it makes
\* one call at a time.
DropResult ==
    /\ pc \in {"opened", "failed"}
    /\ ret # NoRet
    /\ ret' = NoRet
    /\ UNCHANGED <<file, stream, tail, dat, file_offset, images, statuses, pc>>

\* Mutant: the call takes the payload buffer with it (a self-consuming
\* extract_image), so the GLF is left without its data.
ExtractImage_taking ==
    /\ pc = "opened"
    /\ ret = NoRet
    /\ \E idx \in 0..Len(images) :
          LET out == extract_image(images, dat, idx)
          IN  /\ ret' = Ret("extract_image", idx, 0, out)
              /\ pc' = IF out.kind = "panic" THEN "panicked" ELSE "opened"
    /\ dat' = <<>>
    /\ UNCHANGED <<file, stream, tail, file_offset, images, statuses>>

\* glf.extract_image(idx), any idx up to len().
ExtractImage ==
    /\ pc = "opened"
    /\ ret = NoRet
    /\ \E idx \in 0..Len(images) :
          LET out == extract_image(images, dat, idx)
          IN  /\ ret' = Ret("extract_image", idx, 0, out)
              /\ pc' = IF out.kind = "panic" THEN "panicked" ELSE "opened"
    /\ UNCHANGED <<file, stream, tail, dat, file_offset, images, statuses>>

\* glf.extract_image_next_sonarid(idx, sonar_id), any idx up to len().
ExtractImageNextSonarid ==
    /\ pc = "opened"
    /\ ret = NoRet
    /\ \E idx \in 0..Len(images), sonar_id \in SonarIds :
          LET out == extract_image_next_sonarid(images, dat, idx, sonar_id)
          IN  /\ ret' = Ret("extract_image_next_sonarid", idx, sonar_id, out)
              /\ pc' = IF out.kind = "panic" THEN "panicked" ELSE "opened"
    /\ UNCHANGED <<file, stream, tail, dat, file_offset, images, statuses>>

Next ==
    \/ OpenFailed
    \/ ZipFailed
    \/ WriteRecord
    \/ ReadZipDat
    \/ ParseRecord
    \/ ParsePanic
    \/ NewOk
    \/ DropResult
    \/ ExtractImage
    \/ ExtractImageNextSonarid

Spec == Init /\ [][Next]_vars

(***************************************************************************)
(* GLF::new alone, with the fairness of sequential code: once the call has *)
(* entered parse_dat, the iteration that is enabled (a record parsed, a    *)
(* panic, or the loop's exit) is executed.                                 *)
(***************************************************************************)
NextParse ==
    \/ OpenFailed
    \/ ZipFailed
    \/ WriteRecord
    \/ ReadZipDat
    \/ ParseRecord
    \/ ParsePanic
    \/ NewOk

SpecParse ==
    /\ Init
    /\ [][NextParse]_vars
    /\ WF_vars(ParseRecord)
    /\ WF_vars(ParsePanic)
    /\ WF_vars(NewOk)

(***************************************************************************)
(* The facade on a GLF whose public fields were set directly (GLF and      *)
(* ImageRecord are structs of public fields): extract_image and            *)
(* extract_image_next_sonarid as functions of the image list and buffer.   *)
(***************************************************************************)
FacadeDat == Zlib79 \o <<7, 9>>

ImageRecordOf(device_id, ptr, size, ctype, width, height) ==
    [header |-> [header_size |-> header_size, payload_length |-> 0,
                 header_type |-> 0, device_id |-> device_id, node_id |-> 0],
     data_ptr |-> ptr, data_size |-> size, compression_type |-> ctype,
     image_width |-> width, image_height |-> height]

\* <<data_ptr, data_size, compression_type, image_width, image_height>>
FacadeShapes ==
    { <<0, 10, 0, 2, 1>>, <<10, 2, 1, 2, 1>>, <<10, 3, 1, 3, 1>>,
      <<0, 3, 2, 3, 1>>, <<4, 2, 1, 2, 1>>, <<4, 3, 1, 2, 1>>,
      <<4, 1, 1, 2, 1>> }

FacadeRecords ==
    { ImageRecordOf(d, s[1], s[2], s[3], s[4], s[5]) :
        d \in SonarIds, s \in FacadeShapes }

InitFacade ==
    /\ pc = "new"
    /\ file = "fields"
    /\ stream = <<>>
    /\ tail = 0
    /\ dat = <<>>
    /\ file_offset = 0
    /\ images = <<>>
    /\ statuses = <<>>
    /\ ret = NoRet

\* One more image record for the list the GLF is built from.
PushImage ==
    /\ pc = "new"
    /\ file = "fields"
    /\ Len(images) < MaxImages
    /\ \E r \in FacadeRecords : images' = Append(images, r)
    /\ UNCHANGED <<file, stream, tail, dat, file_offset, statuses, pc, ret>>

\* GLF { filepath, images, statuses, dat } written as a struct expression.
GLFFields ==
    /\ pc = "new"
    /\ file = "fields"
    /\ dat' = FacadeDat
    /\ pc' = "opened"
    /\ UNCHANGED <<file, stream, tail, file_offset, images, statuses, ret>>

NextFacade ==
    \/ PushImage
    \/ GLFFields
    \/ DropResult
    \/ ExtractImage
    \/ ExtractImageNextSonarid

SpecFacade == InitFacade /\ [][NextFacade]_vars

(***************************************************************************)
(* Properties.  LastCall(op) says the last call made was op and its result *)
(* has not been dropped yet.                                               *)
(***************************************************************************)
LastCall(op) == ret.op = op

PtrError(out) == out.kind = "Err" /\ out.err = ERR_PTR

Min(S) == CHOOSE x \in S : \A y \in S : x <= y

\* The indices >= from of the image records of the sonar.
Matches(from, sonar_id) ==
    { i \in from..(Len(images) - 1) :
        images[i + 1].header.device_id = sonar_id }

\* C1: for idx < len(), extract_image(idx) returns the "ptr exceeds image
\* data length" error exactly when data_ptr + data_size is greater than the
\* length of the buffer; when it is at most that length (equality
\* included) the call does not return that error.
C1_PtrErrorIffExceeds ==
    (LastCall("extract_image") /\ ret.idx < Len(images)) =>
        (PtrError(ret.out) <=>
            images[ret.idx + 1].data_ptr + images[ret.idx + 1].data_size
                > Len(dat))

\* C2: extract_image(idx) with idx >= len() returns an error value to the
\* caller; it does not abort.
C2_IndexOutOfRangeIsError ==
    (LastCall("extract_image") /\ ret.idx >= Len(images)) =>
        (ret.out.kind = "Err" /\ pc = "opened")

\* C3: whenever extract_image_next_sonarid(idx, s) returns a result, with
\* tidx the smallest index >= idx of a record of sonar s: the raster is the
\* image of record tidx, next_idx > tidx, the record at next_idx is of
\* sonar s, and no record strictly between tidx and next_idx is of sonar s.
C3_NextSonaridResult ==
    (LastCall("extract_image_next_sonarid") /\ ret.out.kind = "Some") =>
        /\ Matches(ret.idx, ret.sonar_id) # {}
        /\ LET tidx == Min(Matches(ret.idx, ret.sonar_id))
               next_idx == ret.out.idx
           IN  /\ extract_image(images, dat, tidx).kind = "Ok"
               /\ ret.out.img = extract_image(images, dat, tidx).img
               /\ next_idx > tidx
               /\ next_idx < Len(images)
               /\ images[next_idx + 1].header.device_id = ret.sonar_id
               /\ \A j \in (tidx + 1)..(next_idx - 1) :
                      images[j + 1].header.device_id # ret.sonar_id

\* C3 witness: a result whose search skipped a record of the other sonar
\* before tidx and another one between tidx and next_idx.
C3_Witness ==
    /\ LastCall("extract_image_next_sonarid")
    /\ ret.out.kind = "Some"
    /\ Matches(ret.idx, ret.sonar_id) # {}
    /\ (Min(Matches(ret.idx, ret.sonar_id)) > ret.idx
         \/ ret.out.idx > Min(Matches(ret.idx, ret.sonar_id)) + 1)

\* Every payload lies strictly inside the buffer, where the bounds test of
\* extract_image (C1) is not at stake.
PayloadsInside ==
    \A i \in 1..Len(images) :
        images[i].data_ptr + images[i].data_size < Len(dat)

\* C4 as stated: for idx < len(), extract_image_next_sonarid(idx, s) returns
\* none if fewer than two records at indices >= idx are of sonar s;
\* otherwise it returns the image at tidx paired with nidx.  (Stated for
\* the calls that return, on the GLFs whose payloads all lie strictly
\* inside the buffer.)
C4_NoneIffFewerThanTwo ==
    (/\ LastCall("extract_image_next_sonarid")
     /\ ret.idx < Len(images)
     /\ ret.out.kind # "panic"
     /\ PayloadsInside) =>
        LET m == Matches(ret.idx, ret.sonar_id)
        IN  IF Cardinality(m) < 2
            THEN ret.out.kind = "None"
            ELSE /\ ret.out.kind = "Some"
                 /\ ret.out.idx = Min(m \ {Min(m)})
                 /\ ret.out.img = extract_image(images, dat, Min(m)).img

\* C4 amended: none if fewer than two records at indices >= idx are of
\* sonar s; otherwise the outcome is that of extract_image(tidx): its
\* raster paired with nidx, none if it returns an error, a panic if it
\* panics.
C4_NoneOrExtractOutcome ==
    (LastCall("extract_image_next_sonarid") /\ ret.idx < Len(images)) =>
        LET m == Matches(ret.idx, ret.sonar_id)
        IN  IF Cardinality(m) < 2
            THEN ret.out.kind = "None"
            ELSE LET got == extract_image(images, dat, Min(m))
                 IN  CASE got.kind = "Ok" ->
                            /\ ret.out.kind = "Some"
                            /\ ret.out.idx = Min(m \ {Min(m)})
                            /\ ret.out.img = got.img
                       [] got.kind = "Err" -> ret.out.kind = "None"
                       [] OTHER -> ret.out.kind = "panic"

\* C4 witness: two records of the sonar at indices >= idx, the first of
\* which extract_image refuses, so the call returns none; and the call
\* on sonars [A, B, A] from index 0 that returns next_idx 2.
C4_Witness ==
    /\ LastCall("extract_image_next_sonarid")
    /\ ret.idx < Len(images)
    /\ Cardinality(Matches(ret.idx, ret.sonar_id)) >= 2
    /\ ret.out.kind = "None"
    /\ extract_image(images, dat,
                     Min(Matches(ret.idx, ret.sonar_id))).err = ERR_H264

(***************************************************************************)
(* Properties of GLF::new.  stream holds the records of the file in the    *)
(* order they were written; the record at position p has node_id p.        *)
(***************************************************************************)
Opened == file = "glf" /\ pc = "opened"

RECURSIVE OfType(_, _)
OfType(ds, t) ==
    IF ds = <<>> THEN <<>>
    ELSE IF ds[1].header_type = t THEN <<ds[1]>> \o OfType(Tail(ds), t)
    ELSE OfType(Tail(ds), t)

SameHeaders(recs, ds) ==
    /\ Len(recs) = Len(ds)
    /\ \A i \in 1..Len(recs) :
          /\ recs[i].header.node_id = ds[i].node_id
          /\ recs[i].header.device_id = ds[i].device_id
          /\ recs[i].header.header_type = ds[i].header_type

\* C5: after a successful parse the images list is exactly the sequence of
\* header_type 0 records of the stream, in stream order, and the statuses
\* list exactly the sequence of header_type 3 records: none dropped,
\* duplicated, reordered or put in the wrong list.
C5_ListsAreStreamOrder ==
    Opened =>
        /\ SameHeaders(images, OfType(stream, 0))
        /\ SameHeaders(statuses, OfType(stream, 3))
        /\ Len(images) + Len(statuses) = Len(stream)

\* C5 witness: a stream of types 0, 3, 0 opened.
C5_Witness ==
    /\ Opened
    /\ Len(stream) = 3
    /\ stream[1].header_type = 0
    /\ stream[2].header_type = 3
    /\ stream[3].header_type = 0
    /\ Len(images) = 2
    /\ Len(statuses) = 1

\* The positions of the records whose header type is neither 0 nor 3.
Unsupported == { p \in 1..Len(stream) : stream[p].header_type \notin {0, 3} }

\* C6: a header whose type is neither 0 nor 3 makes the open fail: no GLF is
\* produced, not even one holding the records parsed before the header,
\* and no record at or after that header is parsed.
C6_UnsupportedTypeFailsOpen ==
    (file = "glf" /\ pc # "new" /\ Unsupported # {}) =>
        /\ pc \in {"parse", "panicked"}
        /\ Len(images) + Len(statuses) < Min(Unsupported)
        /\ pc = "panicked" =>
              (images = <<>> /\ statuses = <<>> /\ dat = <<>>)

\* C6 witness: the open of a three-record stream whose second header has
\* type 98 has panicked.
C6_Witness ==
    /\ file = "glf"
    /\ pc = "panicked"
    /\ Len(stream) = 3
    /\ stream[2].header_type = 98
    /\ stream[3].header_type \in {0, 3}

\* C7: a parsed image record of image_version 3 has the compression type
\* written in the record; one of another image_version has 0 when
\* data_size differs from (bearing_end - bearing_start) * (range_end -
\* range_start), 1 when they are equal, and never 2.
C7_CompressionType ==
    (file = "glf" /\ pc \in {"parse", "opened"}) =>
        \A i \in 1..Len(images) :
            LET r == images[i]
                d == stream[r.header.node_id]
                expected == (d.bearing_end - d.bearing_start)
                                * (d.range_end - d.range_start)
            IN  /\ r.image_version = d.image_version
                /\ r.data_size = Len(d.payload)
                /\ IF r.image_version = 3
                   THEN r.compression_type = d.ctype
                   ELSE /\ r.compression_type # 2
                        /\ r.compression_type =
                              IF r.data_size # expected THEN 0 ELSE 1

\* C7 witness: an opened GLF with a version 3 record of type 2 and two
\* version 2 records, one inferred 0 and one inferred 1.
C7_Witness ==
    /\ Opened
    /\ \E i, j, k \in 1..Len(images) :
          /\ images[i].image_version = 3
          /\ images[i].compression_type = 2
          /\ images[j].image_version = 2
          /\ images[j].compression_type = 0
          /\ images[k].image_version = 2
          /\ images[k].compression_type = 1

RECURSIVE SumRecordSizes(_)
SumRecordSizes(recs) ==
    IF recs = <<>> THEN 0
    ELSE recs[1].record_size + header_size + SumRecordSizes(Tail(recs))

\* The bytes the record parsers consumed: each record's body and header.
Covered ==
    SumRecordSizes(images) + Len(statuses) * (status_record_size + header_size)

\* C8 as stated: after every successful open the sum over all parsed
\* records of body size + 21 equals the length of the buffer.  (Stated for
\* the streams that are not cut short, where C9 is not at stake.)
C8_FullCoverage == (Opened /\ tail >= 0) => Covered = Len(dat)

\* C8 amended: after every successful open the sum differs from the length
\* of the buffer by at most two: up to two trailing bytes are left
\* unparsed, and the sum exceeds the length (by up to two) only when the
\* last record parsed is a status record.
C8_CoverageWithinTwo ==
    Opened =>
        /\ Covered >= Len(dat) - 2
        /\ Covered <= Len(dat) + 2
        /\ Covered > Len(dat) =>
              (stream # <<>> /\ stream[Len(stream)].header_type = 3)

\* C8 witness: an opened stream with trailing bytes after its last record.
C8_Witness ==
    /\ Opened
    /\ Len(images) >= 1
    /\ Covered < Len(dat)

\* A record as a recorder writes it.
Faultless(d) ==
    /\ d.star
    /\ d.header_type = d.body_type
    /\ d.rtype = RTYPE_IMAGE
    /\ d.version = VERSION_TAG
    /\ d.end_tag = END_TAG
    /\ d.bearing_start <= d.bearing_end

\* C9: a stream whose final record ends exactly at the end of the buffer
\* is parsed to the end with that record included; the same stream with
\* its last byte removed makes the parse fail.
C9_TruncatedStreamFails ==
    (file = "glf" /\ pc # "new" /\ stream # <<>>
        /\ \A p \in 1..Len(stream) : Faultless(stream[p])) =>
        /\ tail = 0 =>
              /\ pc # "panicked"
              /\ pc = "opened" =>
                    Len(images) + Len(statuses) = Len(stream)
        /\ tail = 0 - 1 => pc # "opened"

\* C10: for every image record of a successfully opened GLF, data_ptr is
\* the offset of the first payload byte, right after the u32 data_size
\* field, data_ptr + data_size is at most the length of the buffer, and
\* extract_image on it does not return the "ptr exceeds" error.
C10_ParsedPointersInData ==
    Opened =>
        \A i \in 1..Len(images) :
            LET r == images[i]
                d == stream[r.header.node_id]
            IN  /\ r.data_ptr + r.data_size <= Len(dat)
                /\ read_u32(dat, r.data_ptr - 4) = r.data_size
                /\ SubSeq(dat, r.data_ptr + 1, r.data_ptr + r.data_size)
                      = d.payload
                /\ ~PtrError(extract_image(images, dat, i - 1))

\* C10 witness: extract_image returned a raster for the second image
\* record of an opened file.
C10_Witness ==
    /\ Opened
    /\ LastCall("extract_image")
    /\ ret.idx = 1
    /\ ret.out.kind = "Ok"

(***************************************************************************)
(* Properties of extract_image on the records of an opened file.           *)
(***************************************************************************)
\* The last call was extract_image on a record of the list.
ExtractedRecord == LastCall("extract_image") /\ ret.idx < Len(images)

\* C11: for an image record whose compression_type is neither 0 nor 2, a
\* successful extract_image(idx) returns a width x height raster whose
\* bytes are buffer[data_ptr .. data_ptr + data_size], and it succeeds
\* only if data_size = image_width * image_height: a longer or shorter
\* payload is not returned as a raster.
C11_UncompressedRaster ==
    (/\ Opened
     /\ ExtractedRecord
     /\ images[ret.idx + 1].compression_type \notin {0, 2}
     /\ ret.out.kind = "Ok") =>
        LET r == images[ret.idx + 1]
        IN  /\ ret.out.img.width = r.image_width
            /\ ret.out.img.height = r.image_height
            /\ ret.out.img.raw
                  = SubSeq(dat, r.data_ptr + 1, r.data_ptr + r.data_size)
            /\ r.data_size = r.image_width * r.image_height

\* C12: extract_image(idx) on a record of compression_type 2 of a
\* successfully opened GLF returns the H.264-unsupported error, never a
\* raster and never another error or a panic.
C12_H264IsRejected ==
    (/\ file = "glf"
     /\ ExtractedRecord
     /\ images[ret.idx + 1].compression_type = 2) =>
        /\ ret.out = Outcome("Err", ERR_H264, 0, NoImg)
        /\ pc = "opened"

\* C12 witness: extract_image was called on a version 3 record of
\* compression type 2 of an opened file.
C12_Witness ==
    /\ Opened
    /\ ExtractedRecord
    /\ images[ret.idx + 1].image_version = 3
    /\ images[ret.idx + 1].compression_type = 2
    /\ ret.out.kind = "Err"

(***************************************************************************)
(* Frame of the facade operations (both take &self).                       *)
(***************************************************************************)
\* The fields of the GLF: filepath, images, statuses, dat.
GLFState == <<file, images, statuses, dat>>

IsCall(r) == r.op \in {"extract_image", "extract_image_next_sonarid"}

\* What the call r returns on the GLF as it is now.
CallOutcome(r) ==
    IF r.op = "extract_image"
    THEN extract_image(images, dat, r.idx)
    ELSE extract_image_next_sonarid(images, dat, r.idx, r.sonar_id)

\* A step in which extract_image or extract_image_next_sonarid is called
\* and returns or aborts.
CallStep == pc = "opened" /\ ret = NoRet /\ IsCall(ret')

\* C13: extract_image and extract_image_next_sonarid leave the GLF
\* unchanged (filepath, images, statuses and dat are the same after every
\* call, successful or failing); a call that returns, with a raster or an
\* error, leaves the facade open for the next call; and the outcome of any
\* call made so far is the outcome the same call has on the GLF as it is
\* now, so repeating it after any other calls returns the same raster
\* bytes or the same error.
C13_CallsLeaveGLFUnchanged ==
    /\ [][CallStep =>
            /\ GLFState' = GLFState
            /\ ret'.out.kind # "panic" => pc' = "opened"]_vars
    /\ [](IsCall(ret) => ret.out = CallOutcome(ret))

\* C13 witness: extract_image returned an error on a GLF of several
\* records, which is still open with its records and buffer.
C13_Witness ==
    /\ pc = "opened"
    /\ LastCall("extract_image")
    /\ ret.out.kind = "Err"
    /\ Len(images) >= 2
    /\ dat = FacadeDat
    /\ \E i \in 0..(Len(images) - 1) :
          extract_image(images, dat, i).kind = "Ok"

(***************************************************************************)
(* Properties of the parse loop.                                           *)
(***************************************************************************)
\* C14: every CI header accepted during a successful open begins with the
\* star: for each record parsed at header offset fp, not only the first
\* record at offset 0, buffer[fp] = '*'; a stream in which a later
\* record's first byte is not '*' does not open successfully.
C14_EveryHeaderStarts ==
    (file = "glf" /\ pc # "new"
        /\ \E p \in 1..Len(stream) : ~stream[p].star) =>
        pc # "opened"

\* The bytes of the body of the record the iteration has just parsed:
\* 218 for a status record, 62 + (2 if image_version = 3) + data_size +
\* 8 * (bearing_end - bearing_start) for an image record.
ParsedBodySize ==
    IF Len(images') > Len(images)
    THEN LET r == images'[Len(images')]
         IN  62 + (IF r.image_version = 3 THEN 2 ELSE 0) + r.data_size
                + 8 * (r.bearing_end - r.bearing_start)
    ELSE 218

\* An iteration of the loop that does not abort.
IterationStep == pc = "parse" /\ pc' = "parse"

\* C15: the stream parser terminates on every buffer: each iteration that
\* does not abort strictly increases the offset, by 21 for the header plus
\* the body of the record, parses exactly one record, and never lets the
\* offset pass the end of the buffer by more than two bytes; and every
\* parse that has started ends, with the loop condition false or with an
\* abort.
C15_ParserTerminates ==
    /\ [][IterationStep =>
            /\ file_offset' > file_offset
            /\ file_offset' = file_offset + 21 + ParsedBodySize
            /\ Len(images') + Len(statuses')
                  = Len(images) + Len(statuses) + 1
            /\ file_offset' <= Len(dat) + 2]_vars
    /\ (pc = "parse") ~> (pc \in {"opened", "panicked"})
    /\ [](pc = "opened" => ~parse_dat_continue(dat, file_offset))

\* C15 witness: a parse of three records, image and status records among
\* them, that ran to the end of the buffer.
C15_Witness ==
    /\ Opened
    /\ Len(images) + Len(statuses) = 3
    /\ Len(images) >= 1
    /\ Len(statuses) >= 1
    /\ file_offset >= Len(dat) - 2
    /\ file_offset > 3 * header_size

====
